---- MODULE Spec2Model ----
(***************************************************************************)
(* Model of streamlit_app.py: a Streamlit script that loads an Excel       *)
(* workbook (one worksheet per area), lets the user pick an area and a     *)
(* view, and draws a Plotly line chart.                                    *)
(*                                                                         *)
(* Streamlit re-runs the whole script, top to bottom, once when a browser  *)
(* session opens and once after every widget change.  Widget values are    *)
(* kept per session; the st.cache_data cache of load_data is shared by the *)
(* whole server process.  One action of the model is one complete script   *)
(* run for one session.                                                    *)
(*                                                                         *)
(* Strings are Python strings; TLC evaluates Len, SubSeq and \o on them.   *)
(***************************************************************************)
EXTENDS Integers, Sequences, FiniteSets, TLC

VARIABLES
    files,      \* the disk: path -> workbook, or Unreadable
    cache,      \* st.cache_data store of load_data: path -> returned dict
    opened,     \* paths pd.ExcelFile was called on during the latest script run
    widgets,    \* per session: the widget values Streamlit keeps between runs
    page        \* per session: what the latest script run put on the page

vars == <<files, cache, opened, widgets, page>>

-----------------------------------------------------------------------------
(* Bounds and the inputs the model draws from *)

\* Longest workbook (number of worksheets) the disk may hold.
MaxSheets == 2

Sessions == {"s1", "s2"}

DEFAULT_EXCEL_FILE == "population_projection_se_london_icb.xlsx"

Paths == {DEFAULT_EXCEL_FILE, "other.xlsx", "archive.xlsx"}

\* What a path holds: a workbook pd.ExcelFile can open (its worksheets, in
\* workbook order), or nothing it can open (missing, unreadable or not a
\* workbook), for which pd.ExcelFile raises.
Workbook(sheets) == [readable |-> TRUE, sheets |-> sheets]
Unreadable == [readable |-> FALSE, sheets |-> <<>>]

\* A worksheet as pd.read_excel returns it: the header row gives the column
\* labels, nrows counts the data rows, Year holds the values of the "Year"
\* column (empty when the sheet has no such column).
Sheet(n, cols, k, yrs) == [name |-> n, columns |-> cols, nrows |-> k, Year |-> yrs]

FullColumns ==
    <<"Year", "0-24", "25-64", "65-79", "80+", "All ages",
      "0-24_pct", "25-64_pct", "65-79_pct", "80+_pct", "All ages_pct">>

Bromley     == Sheet("Bromley", FullColumns, 3, <<2025, 2030, 2035>>)
Lewisham    == Sheet("Lewisham", FullColumns, 3, <<2025, 2030, 2035>>)
SELondonICB == Sheet("SE London ICB", FullColumns, 3, <<2025, 2030, 2035>>)

\* Columns in another physical order, with labels that are near misses of the
\* expected ones.
Shuffled ==
    Sheet("Southwark",
          <<"80+_pct", "Notes", "All ages", "Other_pct", "Year", "0-24",
            "0-24_pct", "pct", "65-79_PCT", "_pct", "25-64_pct_">>,
          2, <<2031, 2026>>)

\* "Year" and nothing the chart knows.
YearOnly == Sheet("Greenwich", <<"Year", "Notes">>, 1, <<2025>>)

\* Data rows but no "Year" column.
NoYear == Sheet("Bexley", <<"year", "0-24", "0-24_pct">>, 2, <<>>)

\* A header row and no data rows.
HeaderOnly == Sheet("Lambeth", FullColumns, 0, <<>>)

\* An older table of an area the catalogue also holds.
BromleyOld ==
    Sheet("Bromley", <<"Year", "All ages", "All ages_pct">>, 2, <<2021, 2024>>)

\* A blank worksheet.
Blank == Sheet("Sheet1", <<>>, 0, <<>>)

\* The worksheets "other.xlsx" is made of.
SheetCatalogue == {Bromley, Shuffled, YearOnly, NoYear, HeaderOnly}

Range(s) == {s[i] : i \in DOMAIN s}

\* Worksheet names are unique within a workbook.
SheetLists ==
    {wb \in UNION {[1..n -> SheetCatalogue] : n \in 0..MaxSheets} :
        \A i, j \in DOMAIN wb : i # j => wb[i].name # wb[j].name}

\* The workbook the repository ships next to the script.
ShippedWorkbook == <<Bromley, Lewisham, SELondonICB>>

\* An older workbook, with the area names of a workbook "other.xlsx" may
\* hold.
ArchiveWorkbook == <<Blank, BromleyOld, YearOnly>>

Contents == {Unreadable} \cup {Workbook(wb) : wb \in SheetLists}

\* The disks a run may start from.  They do not change while the server runs.
Disks ==
    {[p \in Paths |->
         IF p = DEFAULT_EXCEL_FILE THEN shipped
         ELSE IF p = "other.xlsx" THEN other
         ELSE Workbook(ArchiveWorkbook)] :
     shipped \in {Workbook(ShippedWorkbook), Unreadable}, other \in Contents}

-----------------------------------------------------------------------------
(* load_data *)

\* pandas: DataFrame.empty is True when any axis has length 0.
df_empty(df) == Len(df.columns) = 0 \/ df.nrows = 0

\* Variant: the emptiness test left out.
sheet_is_loaded_year_only(df) == "Year" \in Range(df.columns)

\* if not df.empty and 'Year' in df.columns
sheet_is_loaded(df) == ~df_empty(df) /\ "Year" \in Range(df.columns)

\* The returned dict keeps insertion order, which is the workbook's sheet
\* order; it is modelled as the sequence of its values, each carrying its key
\* in the field name.
load_data(wb) == SelectSeq(wb.sheets, sheet_is_loaded)

keys(data_dict) == [i \in DOMAIN data_dict |-> data_dict[i].name]

getitem(data_dict, key) ==
    data_dict[CHOOSE i \in DOMAIN data_dict : data_dict[i].name = key]

-----------------------------------------------------------------------------
(* Column selection *)

\* str.endswith
endswith(s, suffix) ==
    /\ Len(s) >= Len(suffix)
    /\ SubSeq(s, Len(s) - Len(suffix) + 1, Len(s)) = suffix

COUNT_COLUMNS == <<"0-24", "25-64", "65-79", "80+", "All ages">>

\* Variant: "_pct" in col, in place of col.endswith("_pct").
is_pct_anywhere(col) ==
    \E k \in 1..Len(col) : k + 3 <= Len(col) /\ SubSeq(col, k, k + 3) = "_pct"

is_pct(col) == endswith(col, "_pct")

\* [col for col in selected_df.columns if col.endswith("_pct")]
pct_columns(selected_df) == SelectSeq(selected_df.columns, is_pct)

\* Variant: the worksheet's columns filtered by the fixed list.
count_columns_sheet_order(selected_df) ==
    SelectSeq(selected_df.columns, LAMBDA col : col \in Range(COUNT_COLUMNS))

\* Variant: the fixed list, unfiltered.
count_columns_unfiltered(selected_df) == COUNT_COLUMNS

\* [col for col in ['0-24', ...] if col in selected_df.columns]
count_columns(selected_df) ==
    SelectSeq(COUNT_COLUMNS, LAMBDA col : col \in Range(selected_df.columns))

plot_columns(selected_df, view_type) ==
    IF view_type = "Percent change"
    THEN pct_columns(selected_df)
    ELSE count_columns(selected_df)

y_label(view_type) ==
    IF view_type = "Percent change"
    THEN "Percent change (%)"
    ELSE "Population (persons)"

title_suffix(view_type) ==
    IF view_type = "Percent change"
    THEN " - Percent Change"        \* the source writes an en dash
    ELSE " - Population Counts"

\* Variant: the baseline flag set in both branches.
zero_line_always(view_type) == TRUE

zero_line(view_type) == view_type = "Percent change"

-----------------------------------------------------------------------------
(* Chart *)

\* Variant: the percent entries one colour off.
color_map_pct_shifted ==
    [col \in {"0-24", "25-64", "65-79", "80+", "All ages", "0-24_pct",
              "25-64_pct", "65-79_pct", "80+_pct", "All ages_pct"} |->
        CASE col = "0-24"         -> "#F5B041"
          [] col = "25-64"        -> "#5DADE2"
          [] col = "65-79"        -> "#58D68D"
          [] col = "80+"          -> "#E74C3C"
          [] col = "All ages"     -> "#34495E"
          [] col = "0-24_pct"     -> "#5DADE2"
          [] col = "25-64_pct"    -> "#58D68D"
          [] col = "65-79_pct"    -> "#E74C3C"
          [] col = "80+_pct"      -> "#34495E"
          [] col = "All ages_pct" -> "#F5B041"]

color_map ==
    [col \in {"0-24", "25-64", "65-79", "80+", "All ages", "0-24_pct",
              "25-64_pct", "65-79_pct", "80+_pct", "All ages_pct"} |->
        CASE col = "0-24"         -> "#F5B041"
          [] col = "25-64"        -> "#5DADE2"
          [] col = "65-79"        -> "#58D68D"
          [] col = "80+"          -> "#E74C3C"
          [] col = "All ages"     -> "#34495E"
          [] col = "0-24_pct"     -> "#F5B041"
          [] col = "25-64_pct"    -> "#5DADE2"
          [] col = "65-79_pct"    -> "#58D68D"
          [] col = "80+_pct"      -> "#E74C3C"
          [] col = "All ages_pct" -> "#34495E"]

\* Plotly's default colour sequence: px.line takes the colour of a series
\* that color_discrete_map does not name from it, in order of appearance,
\* counting on from the entries of the map.
colorway ==
    <<"#636efa", "#EF553B", "#00cc96", "#ab63fa", "#FFA15A",
      "#19d3f3", "#FF6692", "#B6E880", "#FF97FF", "#FECB52">>

trace_color(cols, i) ==
    IF cols[i] \in DOMAIN color_map
    THEN color_map[cols[i]]
    ELSE LET unnamed == Cardinality({j \in 1..(i - 1) : cols[j] \notin DOMAIN color_map})
         IN  colorway[((Cardinality(DOMAIN color_map) + unnamed) % Len(colorway)) + 1]

\* fig.update_traces(line=dict(width=3))
line_width == 3

Min(S) == CHOOSE x \in S : \A y \in S : x <= y
Max(S) == CHOOSE x \in S : \A y \in S : x >= y

\* [plot_df['Year'].min(), plot_df['Year'].max()]; of a column without
\* values both are NaN, written <<>>.
year_range(years) == IF years = {} THEN <<>> ELSE <<Min(years), Max(years)>>

NoFig ==
    [title |-> "", x |-> "", y |-> <<>>, y_label |-> "", colors |-> <<>>,
     width |-> 0, xrange |-> <<>>, hline |-> FALSE]

\* Variant: the x-axis range widened by the ranges of the charts already
\* on a page, as if kept in a variable that outlives the run.
make_fig_accumulating(selected_df, selected_area, view_type) ==
    LET cols == plot_columns(selected_df, view_type)
        shown == {s \in DOMAIN page : page[s].status = "chart"}
        years == Range(selected_df.Year)
                   \cup UNION {Range(page[s].fig.xrange) : s \in shown}
    IN  [title   |-> selected_area \o title_suffix(view_type),
         x       |-> "Year",
         y       |-> cols,
         y_label |-> y_label(view_type),
         colors  |-> [i \in DOMAIN cols |-> trace_color(cols, i)],
         width   |-> line_width,
         xrange  |-> year_range(years),
         hline   |-> zero_line(view_type)]

\* px.line(...), update_traces, update_xaxes, add_hline: one series per
\* plot column, named by the column.
make_fig(selected_df, selected_area, view_type) ==
    LET cols == plot_columns(selected_df, view_type)
        \* plot_df = selected_df[['Year'] + plot_columns] keeps every row
        years == Range(selected_df.Year)
    IN  [title   |-> selected_area \o title_suffix(view_type),
         x       |-> "Year",
         y       |-> cols,
         y_label |-> y_label(view_type),
         colors  |-> [i \in DOMAIN cols |-> trace_color(cols, i)],
         width   |-> line_width,
         xrange  |-> year_range(years),
         hline   |-> zero_line(view_type)]

-----------------------------------------------------------------------------
(* Widgets *)

\* Streamlit keeps a widget's value between runs of a session under an
\* identity computed from the widget's arguments (for a selectbox, its label
\* and its options), and forgets the value of a widget that a run did not
\* create.  index is the position of the chosen option; 0 stands for "no
\* value kept".
NoWidget == [options |-> <<>>, index |-> 0]

VIEW_OPTIONS == <<"Percent change", "Counts">>

\* The position a widget with these options shows in this run: the kept one
\* when the widget is the same as in the previous run, else the first
\* option.
widget_index(options, kept) ==
    IF kept.index # 0 /\ kept.options = options THEN kept.index ELSE 1

\* Variant: the option kept from the previous run returned whatever the
\* options of this run.
selectbox_stale(options, kept) ==
    IF kept.index # 0 THEN kept.options[kept.index]
    ELSE IF options = <<>> THEN "None" ELSE options[1]

\* st.sidebar.selectbox("Select area", area_names); None without options.
selectbox(options, kept) ==
    IF options = <<>> THEN "None" ELSE options[widget_index(options, kept)]

\* st.sidebar.radio("View", options=[...])
radio(options, kept) == options[widget_index(options, kept)]

kept_widget(options, kept) ==
    [options |-> options, index |-> widget_index(options, kept)]

-----------------------------------------------------------------------------
(* One run of the script *)

\* @st.cache_data: the value stored for the argument if there is one, else
\* the function runs and its return value is stored; a call that raises
\* stores nothing.
\* Variant: nothing is ever found in the cache.
cache_hit_never(excel_file, store) == FALSE

cache_hit(excel_file, store) == excel_file \in DOMAIN store

cached_load_data(excel_file, store, disk) ==
    IF cache_hit(excel_file, store)
    THEN [raised |-> FALSE, value |-> store[excel_file], store |-> store,
          opened |-> {}]
    ELSE IF disk[excel_file].readable
    THEN LET data == load_data(disk[excel_file])
         IN  [raised |-> FALSE, value |-> data,
              store |-> (excel_file :> data) @@ store, opened |-> {excel_file}]
    ELSE [raised |-> TRUE, value |-> <<>>, store |-> store,
          opened |-> {excel_file}]

\* Variant: the guard on an empty dict left out.
no_worksheets_never(data_dict) == FALSE

\* if not data_dict
no_worksheets(data_dict) == data_dict = <<>>

\* What a run leaves on the page.  status: "closed" before the first run,
\* "stopped" after st.stop(), "exception" after an uncaught exception,
\* "chart" after st.plotly_chart.
Page(status, error, names, area, view, fig) ==
    [status |-> status, error |-> error, area_names |-> names,
     selected_area |-> area, view_type |-> view, fig |-> fig]

ClosedPage == Page("closed", "", <<>>, "", "", NoFig)

\* The script from the text input to st.plotly_chart, for the widget values
\* w of one session.
script(w, store, disk) ==
    LET excel_file_path == w.path
        loaded == cached_load_data(excel_file_path, store, disk)
        data_dict == loaded.value
        area_names == keys(data_dict)
        selected_area == selectbox(area_names, w.area)
        view_type == radio(VIEW_OPTIONS, w.view)
        stopped(msg) ==
            [store |-> loaded.store, opened |-> loaded.opened,
             widgets |-> [path |-> excel_file_path, area |-> NoWidget, view |-> NoWidget],
             page |-> Page("stopped", msg, <<>>, "", "", NoFig)]
    IN  IF loaded.raised
        THEN stopped("Failed to load data from " \o excel_file_path)
        ELSE IF no_worksheets(data_dict)
        THEN stopped("No valid worksheets were found in the provided Excel file.")
        ELSE IF selected_area \notin Range(area_names)
        THEN \* data_dict[selected_area] raises KeyError
             [store |-> loaded.store, opened |-> loaded.opened,
              widgets |-> [path |-> excel_file_path,
                           area |-> kept_widget(area_names, w.area),
                           view |-> NoWidget],
              page |-> Page("exception", "KeyError", area_names, selected_area,
                            "", NoFig)]
        ELSE [store |-> loaded.store, opened |-> loaded.opened,
              widgets |-> [path |-> excel_file_path,
                           area |-> kept_widget(area_names, w.area),
                           view |-> kept_widget(VIEW_OPTIONS, w.view)],
              page |-> Page("chart", "", area_names, selected_area, view_type,
                            make_fig(getitem(data_dict, selected_area),
                                     selected_area, view_type))]

\* Streamlit runs the script for session s with the widget values w.
Rerun(s, w) ==
    \E r \in {script(w, cache, files)} :
        /\ cache' = r.store
        /\ opened' = r.opened
        /\ widgets' = [widgets EXCEPT ![s] = r.widgets]
        /\ page' = [page EXCEPT ![s] = r.page]
        /\ UNCHANGED files

-----------------------------------------------------------------------------
(* Sessions *)

Init ==
    /\ files \in Disks
    /\ cache = <<>>
    /\ opened = {}
    /\ widgets = [s \in Sessions |->
                    [path |-> DEFAULT_EXCEL_FILE, area |-> NoWidget, view |-> NoWidget]]
    /\ page = [s \in Sessions |-> ClosedPage]

\* A browser opens the app: the first run, every widget at its default.
Open(s) ==
    /\ page[s].status = "closed"
    /\ Rerun(s, widgets[s])

\* The user enters another path in the "Excel file path" text input.
ChangePath(s, p) ==
    /\ page[s].status # "closed"
    /\ p # widgets[s].path
    /\ Rerun(s, [widgets[s] EXCEPT !.path = p])

\* The user picks another option of the "Select area" selectbox.
ChangeArea(s) ==
    /\ page[s].status \in {"chart", "exception"}
    /\ \E i \in DOMAIN page[s].area_names :
          /\ i # widgets[s].area.index
          /\ Rerun(s, [widgets[s] EXCEPT !.area.index = i])

\* The user picks the other option of the "View" radio.
ChangeView(s, i) ==
    /\ page[s].status = "chart"
    /\ i \in DOMAIN VIEW_OPTIONS
    /\ i # widgets[s].view.index
    /\ Rerun(s, [widgets[s] EXCEPT !.view.index = i])

Next ==
    \E s \in Sessions :
        \/ Open(s)
        \/ \E p \in Paths : ChangePath(s, p)
        \/ ChangeArea(s)
        \/ \E i \in DOMAIN VIEW_OPTIONS : ChangeView(s, i)

Spec == Init /\ [][Next]_vars

-----------------------------------------------------------------------------
(* Vocabulary of the properties, stated on the disk and the page rather    *)
(* than through the operators of the script                                *)

Opened(s) == page[s].status # "closed"
ReachedSelector(s) == page[s].status \in {"chart", "exception"}
Charted(s) == page[s].status = "chart"

\* The worksheet of the session's workbook that bears the selected name.
OnDisk(s) == files[widgets[s].path]
SelectedSheet(s) ==
    CHOOSE sh \in Range(OnDisk(s).sheets) : sh.name = page[s].selected_area

\* A worksheet qualifies: at least one row, and a column named "Year".
Qualifies(sh) == sh.nrows >= 1 /\ \E i \in DOMAIN sh.columns : sh.columns[i] = "Year"

\* The names of the qualifying worksheets of a workbook, in workbook order.
QualifyingNames(wb) ==
    LET idx == {i \in DOMAIN wb.sheets : Qualifies(wb.sheets[i])}
        nth[k \in 0..Cardinality(idx)] ==
            IF k = 0 THEN 0 ELSE Min({i \in idx : i > nth[k - 1]})
    IN  [k \in 1..Cardinality(idx) |-> wb.sheets[nth[k]].name]

\* c is some text (its first Len(c) - 4 characters) followed by "_pct".
HasPctSuffix(c) == Len(c) >= 4 /\ SubSeq(c, 1, Len(c) - 4) \o "_pct" = c

\* Where x stands in u (read_excel makes column labels unique).
Pos(u, x) == CHOOSE i \in DOMAIN u : u[i] = x

\* Sequence t lists, without repetition, members of sequence u in the
\* order they have in u.
InOrderOf(t, u) ==
    /\ \A i \in DOMAIN t : t[i] \in Range(u)
    /\ \A i, j \in DOMAIN t : i < j => Pos(u, t[i]) < Pos(u, t[j])

-----------------------------------------------------------------------------
(* Properties *)

\* C1: every cached return value of load_data has, for every worksheet of
\* the workbook it was loaded from, the worksheet's name as a key mapped to
\* that worksheet's table exactly when the worksheet has at least one row
\* and a "Year" column, and has no other key.
C1_LoadedIffQualifies ==
    \A p \in DOMAIN cache :
        /\ \A sh \in Range(files[p].sheets) :
               (\E i \in DOMAIN cache[p] :
                    cache[p][i].name = sh.name /\ cache[p][i] = sh)
               <=> Qualifies(sh)
        /\ \A i \in DOMAIN cache[p] :
               \E sh \in Range(files[p].sheets) : sh.name = cache[p][i].name

\* A workbook was loaded of which one worksheet was kept and another dropped.
C1_Witness ==
    \E p \in DOMAIN cache :
        /\ cache[p] # <<>>
        /\ \E sh \in Range(files[p].sheets) : ~Qualifies(sh)

\* C2: a run whose path cannot be loaded, or whose workbook has no
\* qualifying worksheet, ends stopped with an error message and without
\* area selector, view selector or chart; no run ends in an uncaught
\* exception; a chart is on the page only when the workbook is readable and
\* has a qualifying worksheet.
C2_ErrorsHaltTheRun ==
    \A s \in Sessions :
        LET wb == OnDisk(s)
            nothing == ~wb.readable \/ \A sh \in Range(wb.sheets) : ~Qualifies(sh)
        IN  Opened(s) =>
              /\ page[s].status # "exception"
              /\ nothing =>
                    /\ page[s].status = "stopped"
                    /\ page[s].error # ""
                    /\ page[s].area_names = <<>>
                    /\ page[s].selected_area = ""
                    /\ page[s].view_type = ""
                    /\ page[s].fig = NoFig
                    /\ widgets[s].area = NoWidget
                    /\ widgets[s].view = NoWidget
              /\ Charted(s) => ~nothing

\* One session stopped on a load failure, another on an empty dataset.
C2_Witness ==
    \E s, t \in Sessions :
        /\ page[s].status = "stopped" /\ ~OnDisk(s).readable
        /\ page[t].status = "stopped" /\ OnDisk(t).readable
        /\ OnDisk(t).sheets # <<>>

\* C3: load_data is memoized by the path string.  In every step: a path is
\* opened only if the cache holds no entry for it, and a readable one then
\* gets its entry, so a path is read at most once after a successful load;
\* the entries the cache holds stay as they are; a run after a change of
\* path opens the new path if the cache has no entry for it and opens
\* nothing else; a run after a change of area or of view, the path being
\* the same, opens no file.
C3_MemoizedByPath ==
    [][ /\ \A p \in opened' :
              /\ p \notin DOMAIN cache
              /\ files[p].readable => p \in DOMAIN cache'
        /\ \A p \in DOMAIN cache : p \in DOMAIN cache' /\ cache'[p] = cache[p]
        /\ DOMAIN cache' \subseteq DOMAIN cache \cup opened'
        /\ \A s \in Sessions :
              /\ widgets'[s].path # widgets[s].path =>
                    opened' = IF widgets'[s].path \in DOMAIN cache
                              THEN {}
                              ELSE {widgets'[s].path}
              /\ /\ Opened(s)
                 /\ widgets'[s].path = widgets[s].path
                 /\ \/ widgets'[s].area.index # widgets[s].area.index
                    \/ widgets'[s].view.index # widgets[s].view.index
                 => opened' = {}
      ]_vars

\* Two paths are cached, and the latest run, made with a chosen area and
\* view, opened no file.
C3_Witness ==
    /\ Cardinality(DOMAIN cache) >= 2
    /\ opened = {}
    /\ \E s \in Sessions :
          Charted(s) /\ widgets[s].area.index > 1 /\ widgets[s].view.index > 1

\* C4: in the percent-change view the plotted columns are exactly the
\* columns of the selected worksheet whose label ends with "_pct", in the
\* worksheet's column order.
C4_PercentColumns ==
    \A s \in Sessions :
        Charted(s) /\ page[s].view_type = "Percent change" =>
            LET cols == SelectedSheet(s).columns
                y == page[s].fig.y
            IN  /\ InOrderOf(y, cols)
                /\ \A i \in DOMAIN cols :
                       HasPctSuffix(cols[i]) <=> cols[i] \in Range(y)

\* A percent-change chart of a worksheet whose "_pct" columns are neither
\* all of its columns nor only the five expected ones.
C4_Witness ==
    \E s \in Sessions :
        /\ Charted(s) /\ page[s].view_type = "Percent change"
        /\ "Other_pct" \in Range(page[s].fig.y)
        /\ "25-64_pct_" \in Range(SelectedSheet(s).columns)

\* C5: in the counts view the plotted columns are exactly the members of
\* 0-24, 25-64, 65-79, 80+, All ages that are columns of the selected
\* worksheet, in that order, whatever the worksheet's column order.
C5_CountColumns ==
    \A s \in Sessions :
        Charted(s) /\ page[s].view_type = "Counts" =>
            LET fixed == <<"0-24", "25-64", "65-79", "80+", "All ages">>
                cols == SelectedSheet(s).columns
                y == page[s].fig.y
            IN  /\ InOrderOf(y, fixed)
                /\ \A i \in DOMAIN fixed :
                       fixed[i] \in Range(cols) <=> fixed[i] \in Range(y)

\* A counts chart of a worksheet that holds "All ages" before "0-24".
C5_Witness ==
    \E s \in Sessions :
        /\ Charted(s) /\ page[s].view_type = "Counts"
        /\ page[s].fig.y = <<"0-24", "All ages">>
        /\ Pos(SelectedSheet(s).columns, "All ages")
               < Pos(SelectedSheet(s).columns, "0-24")

\* The series name with a trailing "_pct" taken off.
Base(c) == IF HasPctSuffix(c) THEN SubSeq(c, 1, Len(c) - 4) ELSE c

\* C6: a series of the counts view and its percent variant have the same
\* colour: on any two charts (of one session or two, in either view), two
\* series that are the same age group, with or without the "_pct" suffix,
\* are drawn in the same colour; every series has one colour.
C6_ColourIdentity ==
    \A s, t \in Sessions :
        Charted(s) /\ Charted(t) =>
            LET f == page[s].fig
                g == page[t].fig
            IN  /\ DOMAIN f.colors = DOMAIN f.y
                /\ \A i \in DOMAIN f.y, j \in DOMAIN g.y :
                       /\ Base(f.y[i]) = Base(g.y[j])
                       /\ Base(f.y[i]) \in {"0-24", "25-64", "65-79", "80+", "All ages"}
                       => f.colors[i] = g.colors[j]

\* One session shows the counts of an area, another the percent change.
C6_Witness ==
    \E s, t \in Sessions :
        /\ Charted(s) /\ page[s].view_type = "Counts"
        /\ Charted(t) /\ page[t].view_type = "Percent change"
        /\ \E i \in DOMAIN page[s].fig.y :
              page[s].fig.y[i] \o "_pct" \in Range(page[t].fig.y)

\* C7: the chart on the page has the zero baseline exactly when the view
\* the radio shows is "Percent change"; a page without chart has none.
C7_BaselineIffPercent ==
    \A s \in Sessions :
        /\ Charted(s) =>
              /\ widgets[s].view.index \in DOMAIN VIEW_OPTIONS
              /\ page[s].view_type = VIEW_OPTIONS[widgets[s].view.index]
              /\ page[s].fig.hline <=> page[s].view_type = "Percent change"
        /\ ~Charted(s) => ~page[s].fig.hline

\* One session has switched to counts, the other is on percent change with
\* its baseline.
C7_Witness ==
    \E s, t \in Sessions :
        /\ Charted(s) /\ page[s].view_type = "Counts" /\ ~page[s].fig.hline
        /\ Charted(t) /\ page[t].view_type = "Percent change" /\ page[t].fig.hline

\* C8: a run that reaches the area selector selects a key of the dataset
\* loaded for the session's path, so the lookup of the selected worksheet
\* does not fail; and a run that shows a selector with other options than
\* the page had before (the first run of a session among them) selects the
\* first key in workbook order.
C8_SelectedAreaIsKey ==
    /\ [](\A s \in Sessions :
            ReachedSelector(s) =>
                /\ page[s].status = "chart"
                /\ page[s].area_names = QualifyingNames(OnDisk(s))
                /\ page[s].selected_area \in Range(page[s].area_names))
    /\ [][\A s \in Sessions :
            /\ page'[s].status \in {"chart", "exception"}
            /\ page'[s].area_names # page[s].area_names
            => page'[s].selected_area = QualifyingNames(files[widgets'[s].path])[1]
         ]_vars

\* A session came to the archive with the second area still selected.
C8_Witness ==
    \E s \in Sessions :
        /\ Charted(s)
        /\ widgets[s].path = "archive.xlsx"
        /\ page[s].selected_area = "Greenwich"
        /\ "other.xlsx" \in DOMAIN cache

C10_RenderDeterminedByInputs ==
    \A s, t \in Sessions :
        /\ Opened(s) /\ Opened(t)
        /\ widgets[s].path = widgets[t].path
        /\ page[s].selected_area = page[t].selected_area
        /\ page[s].view_type = page[t].view_type
        => page[s] = page[t]

\* Two sessions show the same chart of an area and view that is not the
\* one a session opens with.
C10_Witness ==
    \E s, t \in Sessions :
        /\ s # t
        /\ Charted(s) /\ page[s] = page[t]
        /\ widgets[s].path # DEFAULT_EXCEL_FILE
        /\ widgets[s].area.index > 1
        /\ page[s].view_type = "Counts"

====
